---- MODULE Spec2Model ----
(***************************************************************************)
(* Model of airflights/data_analysis.py: route extraction from the parsed  *)
(* XML feed, the sorting and filtering queries, the distinct-route         *)
(* enumeration and the rank-sum "optimal route" selection.                  *)
(*                                                                         *)
(* Texts are sequences of one-character strings, Python dicts are          *)
(* functions over the set of keys they hold, Python lists are sequences.    *)
(* A raised exception is recorded in err, with out left empty.              *)
(***************************************************************************)
EXTENDS Integers, Sequences, FiniteSets, TLC

VARIABLES doc, op, args, out, err

vars == <<doc, op, args, out, err>>

(***************************************************************************)
(* Bounds.                                                                 *)
(***************************************************************************)
MaxItin == 3

MaxCount == 3

MaxFlights == 2

(***************************************************************************)
(* Python values.                                                          *)
(***************************************************************************)
\* Python's None where a text is expected: no text is equal to it.
None == <<"None">>

EmptyDict == [k \in {} |-> None]

\* dict.get(key) for a dict whose values are texts
Get(d, k) == IF k \in DOMAIN d THEN d[k] ELSE None

\* d[k] = v on a dict
Put(d, k, v) == [x \in DOMAIN d \cup {k} |-> IF x = k THEN v ELSE d[x]]

\* truth value of flight.get(key): the key is there and its dict is not empty
Truthy(d, k) == k \in DOMAIN d /\ DOMAIN d[k] # {}

RECURSIVE LStrip(_)
LStrip(t) == IF t # <<>> /\ Head(t) = " " THEN LStrip(Tail(t)) ELSE t

RECURSIVE RStrip(_)
RStrip(t) ==
    IF t # <<>> /\ t[Len(t)] = " " THEN RStrip(SubSeq(t, 1, Len(t) - 1)) ELSE t

\* str.strip()
Strip(t) == RStrip(LStrip(t))

Digits == {"0", "1", "2", "3", "4", "5", "6", "7", "8", "9"}

DigitVal(c) ==
    CASE c = "0" -> 0 [] c = "1" -> 1 [] c = "2" -> 2 [] c = "3" -> 3
      [] c = "4" -> 4 [] c = "5" -> 5 [] c = "6" -> 6 [] c = "7" -> 7
      [] c = "8" -> 8 [] c = "9" -> 9

RECURSIVE ParseInt(_)
ParseInt(t) ==
    IF t = <<>> THEN 0
    ELSE 10 * ParseInt(SubSeq(t, 1, Len(t) - 1)) + DigitVal(t[Len(t)])

IsInt(t) == t # <<>> /\ \A i \in 1..Len(t) : t[i] \in Digits

DotAt(t) == IF \E i \in 1..Len(t) : t[i] = "."
            THEN CHOOSE i \in 1..Len(t) : t[i] = "." /\ \A j \in 1..(i - 1) : t[j] # "."
            ELSE 0

\* the texts float() accepts here: digits, or digits "." one digit
IsFloat(t) ==
    LET s == Strip(t) IN
    IF DotAt(s) = 0 THEN IsInt(s)
    ELSE /\ IsInt(SubSeq(s, 1, DotAt(s) - 1))
         /\ Len(s) = DotAt(s) + 1
         /\ s[Len(s)] \in Digits

\* float(text), in tenths
ParseFloat(t) ==
    LET s == Strip(t) IN
    IF DotAt(s) = 0 THEN 10 * ParseInt(s)
    ELSE 10 * ParseInt(SubSeq(s, 1, DotAt(s) - 1)) + DigitVal(s[Len(s)])

(***************************************************************************)
(* The parsed document: the OnwardPricedItinerary/Flights nodes in         *)
(* document order.  A node holds its Flight elements (each the sequence of *)
(* its leaf elements) and the Pricing element two levels up.                *)
(***************************************************************************)
Leaf(tag, text) == [tag |-> tag, hasText |-> TRUE, text |-> text]

NoTextLeaf(tag) == [tag |-> tag, hasText |-> FALSE, text |-> <<>>]

FlightElem(s, d, dur) ==
    <<Leaf("Source", s), Leaf("Destination", d), Leaf("Duration", dur)>>

Charge(type, text) == [ChargeType |-> type, text |-> text]

Pricing(text) ==
    [present |-> TRUE,
     attrib |-> [k \in {"currency"} |-> <<"S", "G", "D">>],
     ServiceCharges |-> <<Charge("BaseFare", <<"1">>), Charge("TotalAmount", text)>>]

PricingNoTotal ==
    [present |-> TRUE,
     attrib |-> [k \in {"currency"} |-> <<"S", "G", "D">>],
     ServiceCharges |-> <<Charge("BaseFare", <<"1">>)>>]

PricingNoCurrency ==
    [present |-> TRUE,
     attrib |-> EmptyDict,
     ServiceCharges |-> <<Charge("TotalAmount", <<"9">>)>>]

NoPricing == [present |-> FALSE, attrib |-> EmptyDict, ServiceCharges |-> <<>>]

Node(flights, pricing) == [Flight |-> flights, Pricing |-> pricing]

A == <<"A">>

B == <<"B">>

C == <<"C">>

Airports == {A, B}

\* the directions optimal routes are asked for
Directions == {<<A, B>>, <<B, A>>}

\* the itinerary nodes documents are built from
Itineraries ==
    { \* direct A -> B: fast and dear, middling, slow and cheap
      Node(<<FlightElem(A, B, <<"1">>)>>, Pricing(<<"1", "0">>)),
      Node(<<FlightElem(<<" ", "A">>, <<"B", " ">>, <<"2">>)>>, Pricing(<<"9", ".", "5">>)),
      Node(<<FlightElem(A, B, <<"3">>)>>, Pricing(<<"9">>)),
      \* same price and time as the first, another price text
      Node(<<FlightElem(A, B, <<"1">>)>>, Pricing(<<"1", "0", ".", "0">>)),
      \* one stop A -> C -> B
      Node(<<FlightElem(A, C, <<"1">>), FlightElem(C, B, <<"1">>)>>, Pricing(<<"9">>)),
      \* a second Flight element without any field that has text
      Node(<<FlightElem(A, B, <<"1">>), <<NoTextLeaf("Destination")>>>>, Pricing(<<"9">>)),
      \* three segments A -> C -> B -> A
      Node(<<FlightElem(A, C, <<"1">>), FlightElem(C, B, <<"1">>),
             FlightElem(B, A, <<"1">>)>>, Pricing(<<"1", "0">>)),
      \* a segment without Destination
      Node(<<<<Leaf("Source", A), Leaf("Duration", <<"1">>)>>>>, Pricing(<<"9">>)),
      \* no Flight element, no pricing
      Node(<<>>, NoPricing),
      \* a Flight element, no pricing
      Node(<<FlightElem(A, B, <<"1">>)>>, NoPricing) }

RECURSIVE SeqsUpTo(_, _)
SeqsUpTo(S, n) ==
    IF n = 0 THEN {<<>>}
    ELSE LET shorter == SeqsUpTo(S, n - 1) IN
         shorter \cup {Append(q, x) : q \in {p \in shorter : Len(p) = n - 1}, x \in S}

Documents == SeqsUpTo(Itineraries, MaxItin)

\* the nodes get_route is tried on alone: every mix of Flight elements and
\* pricing data
FlightElems ==
    { FlightElem(A, B, <<"1">>),
      FlightElem(<<" ", "B">>, <<"A", " ">>, <<"2">>),
      <<Leaf("Source", A), Leaf("Duration", <<"1">>)>>,
      <<NoTextLeaf("Destination")>> }

Pricings == {Pricing(<<"9">>), NoPricing, PricingNoTotal, PricingNoCurrency}

RouteNodes == {Node(f, p) : f \in SeqsUpTo(FlightElems, MaxFlights), p \in Pricings}

(***************************************************************************)
(* get_route                                                               *)
(***************************************************************************)
\* 'flight{0}'.format(order)
FlightKey(order) ==
    CASE order = 0 -> "flight0" [] order = 1 -> "flight1" [] order = 2 -> "flight2"
      [] order = 3 -> "flight3" [] order = 4 -> "flight4" [] OTHER -> "flightN"

\* the inner loop: tag -> stripped text of every leaf that has a text
RECURSIVE FlightDirection(_)
FlightDirection(leaves) ==
    IF leaves = <<>> THEN EmptyDict
    ELSE LET n == Len(leaves)
             elem == leaves[n]
             before == FlightDirection(SubSeq(leaves, 1, n - 1))
         IN  IF elem.tag = "Flight" THEN before
             ELSE IF elem.hasText THEN Put(before, elem.tag, Strip(elem.text))
             ELSE before

\* flights.find('../../Pricing/ServiceCharges[@ChargeType="TotalAmount"]')
HasTotalAmount(node) ==
    /\ node.Pricing.present
    /\ \E i \in 1..Len(node.Pricing.ServiceCharges) :
          node.Pricing.ServiceCharges[i].ChargeType = "TotalAmount"

TotalAmount(node) ==
    LET sc == node.Pricing.ServiceCharges
        i == CHOOSE i \in 1..Len(sc) :
                /\ sc[i].ChargeType = "TotalAmount"
                /\ \A j \in 1..(i - 1) : sc[j].ChargeType # "TotalAmount"
    IN  sc[i]

\* evaluating the Price dict raises: .text of None, or attrib['currency']
PriceRaises(node) ==
    \/ ~HasTotalAmount(node)
    \/ "currency" \notin DOMAIN node.Pricing.attrib

PriceOf(node) ==
    [TicketPrice |-> TotalAmount(node).text, Currency |-> node.Pricing.attrib["currency"]]

\* the loop of get_route over the first n Flight elements
RECURSIVE RouteLoop(_, _)
RouteLoop(node, n) ==
    IF n = 0 THEN [raised |-> FALSE, route |-> EmptyDict]
    ELSE LET before == RouteLoop(node, n - 1)
             order == n
         IN  IF before.raised THEN before
             ELSE IF PriceRaises(node) THEN [raised |-> TRUE, route |-> EmptyDict]
             ELSE [raised |-> FALSE,
                   route |-> Put(Put(before.route, FlightKey(order),
                                     FlightDirection(node.Flight[n])),
                                 "Price", PriceOf(node))]

get_route(node) == RouteLoop(node, Len(node.Flight))

(***************************************************************************)
(* add_total_travel_time and get_all_flights                               *)
(***************************************************************************)
FlightKeys(route) == DOMAIN route \ {"Price", "TotalTravelTime"}

RECURSIVE SumDurations(_, _)
SumDurations(route, keys) ==
    IF keys = {} THEN 0
    ELSE LET k == CHOOSE k \in keys : TRUE
             d == Get(route[k], "Duration")
         IN  (IF IsInt(d) THEN ParseInt(d) ELSE 0) + SumDurations(route, keys \ {k})

add_total_travel_time(route) ==
    Put(route, "TotalTravelTime", SumDurations(route, FlightKeys(route)))

RECURSIVE RoutesOf(_)
RoutesOf(d) ==
    IF d = <<>> THEN [raised |-> FALSE, flights |-> <<>>]
    ELSE LET n == Len(d)
             before == RoutesOf(SubSeq(d, 1, n - 1))
             r == get_route(d[n])
         IN  IF before.raised \/ r.raised THEN [raised |-> TRUE, flights |-> <<>>]
             ELSE [raised |-> FALSE, flights |-> Append(before.flights, r.route)]

get_all_flights(d) ==
    LET all == RoutesOf(d) IN
    IF all.raised THEN all
    ELSE [raised |-> FALSE,
          flights |-> [i \in 1..Len(all.flights) |-> add_total_travel_time(all.flights[i])]]

(***************************************************************************)
(* sorted(), get_flights_sorted_price, get_flights_sorted_time             *)
(***************************************************************************)
\* an element goes in front of the elements whose key equals its own
ComesStrict(a, b, reverse) == IF reverse THEN a > b ELSE a < b

Comes(a, b, reverse) == IF reverse THEN a >= b ELSE a <= b

\* where the next element goes: behind every element that may precede it
InsertPos(perm, keys, x, reverse) ==
    1 + Cardinality({j \in 1..Len(perm) : Comes(keys[perm[j]], keys[x], reverse)})

InsertAt(perm, pos, x) ==
    SubSeq(perm, 1, pos - 1) \o <<x>> \o SubSeq(perm, pos, Len(perm))

\* sorted(..., key=, reverse=) as the permutation of positions it applies:
\* stable in both directions
RECURSIVE SortedIdx(_, _, _)
SortedIdx(keys, n, reverse) ==
    IF n = 0 THEN <<>>
    ELSE LET before == SortedIdx(keys, n - 1, reverse) IN
         InsertAt(before, InsertPos(before, keys, n, reverse), n)

\* float(flight['Price']['TicketPrice']) raises
PriceKeyRaises(flight) ==
    \/ "Price" \notin DOMAIN flight
    \/ flight["Price"].TicketPrice = None
    \/ ~IsFloat(flight["Price"].TicketPrice)

PriceKey(flight) == ParseFloat(flight["Price"].TicketPrice)

\* flight['TotalTravelTime'] raises
TimeKeyRaises(flight) == "TotalTravelTime" \notin DOMAIN flight

TimeKey(flight) == flight["TotalTravelTime"]

PricePerm(flights, reverse) ==
    SortedIdx([i \in 1..Len(flights) |-> PriceKey(flights[i])], Len(flights), reverse)

TimePerm(flights, reverse) ==
    SortedIdx([i \in 1..Len(flights) |-> TimeKey(flights[i])], Len(flights), reverse)

get_flights_sorted_price(flights, reverse) ==
    IF \E i \in 1..Len(flights) : PriceKeyRaises(flights[i])
    THEN [raised |-> TRUE, flights |-> <<>>]
    ELSE [raised |-> FALSE,
          flights |-> [i \in 1..Len(flights) |-> flights[PricePerm(flights, reverse)[i]]]]

get_flights_sorted_time(flights, reverse) ==
    IF \E i \in 1..Len(flights) : TimeKeyRaises(flights[i])
    THEN [raised |-> TRUE, flights |-> <<>>]
    ELSE [raised |-> FALSE,
          flights |-> [i \in 1..Len(flights) |-> flights[TimePerm(flights, reverse)[i]]]]

(***************************************************************************)
(* get_flights_filtered_direction                                          *)
(***************************************************************************)
\* flight.get('flight1').get('Source') raises when there is no flight1
DirectionRaises(flight) == "flight1" \notin DOMAIN flight

second_flight(flight) ==
    IF Truthy(flight, "flight2") THEN flight["flight2"] ELSE flight["flight1"]

DirectionMatches(flight, source, destination) ==
    /\ Get(flight["flight1"], "Source") = source
    /\ Get(second_flight(flight), "Destination") = destination

RECURSIVE FilterLoop(_, _, _)
FilterLoop(flights, source, destination) ==
    IF flights = <<>> THEN <<>>
    ELSE LET n == Len(flights)
             before == FilterLoop(SubSeq(flights, 1, n - 1), source, destination)
         IN  IF DirectionMatches(flights[n], source, destination)
             THEN Append(before, flights[n])
             ELSE before

get_flights_filtered_direction(d, source, destination) ==
    LET all == get_all_flights(d) IN
    IF all.raised \/ \E i \in 1..Len(all.flights) : DirectionRaises(all.flights[i])
    THEN [raised |-> TRUE, flights |-> <<>>]
    ELSE [raised |-> FALSE, flights |-> FilterLoop(all.flights, source, destination)]

(***************************************************************************)
(* get_all_routes                                                          *)
(***************************************************************************)
Dict2(s, d) ==
    [k \in {"Source", "Destination"} |-> IF k = "Source" THEN s ELSE d]

Dict3(s, t, d) ==
    [k \in {"Source", "Transfer", "Destination"} |->
        IF k = "Source" THEN s ELSE IF k = "Transfer" THEN t ELSE d]

\* the transfer is told by the truth value of flight2, as the filter does
RouteOfTruthy(flight) ==
    LET source == Get(flight["flight1"], "Source")
        destination == Get(flight["flight1"], "Destination")
    IN  IF ~Truthy(flight, "flight2")
        THEN Dict2(source, destination)
        ELSE Dict3(source, destination, Get(flight["flight2"], "Destination"))

\* the dict the loop appends for one flight
RouteOf(flight) ==
    LET source == Get(flight["flight1"], "Source")
        destination == Get(flight["flight1"], "Destination")
    IN  IF "flight2" \notin DOMAIN flight
        THEN Dict2(source, destination)
        ELSE Dict3(source, destination, Get(flight["flight2"], "Destination"))

all_routes(d) ==
    LET all == get_all_flights(d) IN
    IF all.raised \/ \E i \in 1..Len(all.flights) : DirectionRaises(all.flights[i])
    THEN [raised |-> TRUE, routes |-> <<>>]
    ELSE [raised |-> FALSE,
          routes |-> [i \in 1..Len(all.flights) |-> RouteOf(all.flights[i])]]

\* set(chain(*airports))
AirportSet(routes) ==
    UNION {{routes[i][k] : k \in DOMAIN routes[i]} : i \in 1..Len(routes)}

\* routes told apart by their end points only
RouteSetByEnds(routes) ==
    {Dict2(Get(routes[i], "Source"), Get(routes[i], "Destination")) : i \in 1..Len(routes)}

\* set(all_routes)
RouteSet(routes) == {routes[i] : i \in 1..Len(routes)}

\* the lists a set can be iterated into: its order is not determined
Listings(S) ==
    {q \in [1..Cardinality(S) -> S] : \A i, j \in 1..Cardinality(S) : q[i] = q[j] => i = j}

(***************************************************************************)
(* get_flight_weights and get_optimal_route                                *)
(***************************************************************************)
PosIn(perm, x) == CHOOSE j \in 1..Len(perm) : perm[j] = x

\* one pair per route, in the order of the time-sorted list: the position of
\* the route in the filtered list and the sum of its two 0-based ranks
get_flight_weights(tperm, pperm) ==
    [j \in 1..Len(tperm) |->
        [flight |-> tperm[j], weight |-> (j - 1) + (PosIn(pperm, tperm[j]) - 1)]]

\* [:count + 1]
SliceOneMore(s, count) == SubSeq(s, 1, IF count + 1 < Len(s) THEN count + 1 ELSE Len(s))

\* [:count] for count >= 0
Slice(s, count) == SubSeq(s, 1, IF count < Len(s) THEN count ELSE Len(s))

\* the weights sorted the wrong way round
OptimalIdxDescending(flights, count) ==
    LET tperm == TimePerm(flights, FALSE)
        pperm == PricePerm(flights, FALSE)
        flight_weights == get_flight_weights(tperm, pperm)
        order == SortedIdx([j \in 1..Len(flight_weights) |-> flight_weights[j].weight],
                           Len(flight_weights), TRUE)
    IN  Slice([k \in 1..Len(order) |-> flight_weights[order[k]].flight], count)

OptimalIdx(flights, count) ==
    LET tperm == TimePerm(flights, FALSE)
        pperm == PricePerm(flights, FALSE)
        flight_weights == get_flight_weights(tperm, pperm)
        order == SortedIdx([j \in 1..Len(flight_weights) |-> flight_weights[j].weight],
                           Len(flight_weights), FALSE)
    IN  Slice([k \in 1..Len(order) |-> flight_weights[order[k]].flight], count)

get_optimal_route(d, source, destination, count) ==
    LET filtered == get_flights_filtered_direction(d, source, destination) IN
    IF \/ filtered.raised
       \/ get_flights_sorted_time(filtered.flights, FALSE).raised
       \/ get_flights_sorted_price(filtered.flights, FALSE).raised
    THEN [raised |-> TRUE, flights |-> <<>>]
    ELSE LET idx == OptimalIdx(filtered.flights, count) IN
         [raised |-> FALSE, flights |-> [k \in 1..Len(idx) |-> filtered.flights[idx[k]]]]

(***************************************************************************)
(* The medians the tests compare                                           *)
(***************************************************************************)
\* twice the median of the keys, so that it stays an integer
Median2(keys) ==
    LET n == Len(keys)
        perm == SortedIdx(keys, n, FALSE)
    IN  IF n % 2 = 1 THEN 2 * keys[perm[(n + 1) \div 2]]
        ELSE keys[perm[n \div 2]] + keys[perm[n \div 2 + 1]]

get_median_time(flights) == Median2([i \in 1..Len(flights) |-> TimeKey(flights[i])])

get_median_price(flights) == Median2([i \in 1..Len(flights) |-> PriceKey(flights[i])])

(***************************************************************************)
(* The program: one query at a time over the loaded document.              *)
(***************************************************************************)
Init ==
    /\ doc \in Documents
    /\ op = "idle"
    /\ args = <<>>
    /\ out = <<>>
    /\ err = FALSE

GetRoute ==
    /\ op = "idle"
    /\ \E i \in 1..Len(doc) :
          /\ op' = "get_route"
          /\ args' = [index |-> i]
          /\ LET r == get_route(doc[i]) IN
             /\ err' = r.raised
             /\ out' = r.route
    /\ UNCHANGED doc

GetAllFlights ==
    /\ op = "idle"
    /\ op' = "get_all_flights"
    /\ args' = <<>>
    /\ LET r == get_all_flights(doc) IN
       /\ err' = r.raised
       /\ out' = r.flights
    /\ UNCHANGED doc

GetFlightsSortedPrice ==
    /\ op = "idle"
    /\ ~get_all_flights(doc).raised
    /\ \E reverse \in BOOLEAN :
          LET flights == get_all_flights(doc).flights
              r == get_flights_sorted_price(flights, reverse)
          IN  /\ op' = "get_flights_sorted_price"
              /\ args' = [flights |-> flights, reverse |-> reverse]
              /\ err' = r.raised
              /\ out' = r.flights
    /\ UNCHANGED doc

GetFlightsSortedTime ==
    /\ op = "idle"
    /\ ~get_all_flights(doc).raised
    /\ \E reverse \in BOOLEAN :
          LET flights == get_all_flights(doc).flights
              r == get_flights_sorted_time(flights, reverse)
          IN  /\ op' = "get_flights_sorted_time"
              /\ args' = [flights |-> flights, reverse |-> reverse]
              /\ err' = r.raised
              /\ out' = r.flights
    /\ UNCHANGED doc

GetFlightsFilteredDirection ==
    /\ op = "idle"
    /\ \E source \in Airports, destination \in Airports :
          LET r == get_flights_filtered_direction(doc, source, destination) IN
          /\ op' = "get_flights_filtered_direction"
          /\ args' = [source |-> source, destination |-> destination]
          /\ err' = r.raised
          /\ out' = r.flights
    /\ UNCHANGED doc

GetAllRoutes ==
    /\ op = "idle"
    /\ \E return_set_airports \in BOOLEAN :
          /\ op' = "get_all_routes"
          /\ args' = [return_set_airports |-> return_set_airports]
          /\ LET r == all_routes(doc) IN
             /\ err' = r.raised
             /\ IF r.raised THEN out' = <<>>
                ELSE IF return_set_airports THEN out' = AirportSet(r.routes)
                ELSE out' \in Listings(RouteSet(r.routes))
    /\ UNCHANGED doc

GetOptimalRoute ==
    /\ op = "idle"
    /\ \E direction \in Directions, count \in 0..MaxCount :
          LET r == get_optimal_route(doc, direction[1], direction[2], count) IN
          /\ op' = "get_optimal_route"
          /\ args' = [source |-> direction[1], destination |-> direction[2],
                      count |-> count]
          /\ err' = r.raised
          /\ out' = r.flights
    /\ UNCHANGED doc

Return ==
    /\ op # "idle"
    /\ op' = "idle"
    /\ args' = <<>>
    /\ out' = <<>>
    /\ err' = FALSE
    /\ UNCHANGED doc

Next ==
    \/ GetRoute
    \/ GetAllFlights
    \/ GetFlightsSortedPrice
    \/ GetFlightsSortedTime
    \/ GetFlightsFilteredDirection
    \/ GetAllRoutes
    \/ GetOptimalRoute
    \/ Return

Spec == Init /\ [][Next]_vars

\* get_route alone, on one node at a time
InitRoute ==
    /\ doc \in {<<node>> : node \in RouteNodes}
    /\ op = "idle"
    /\ args = <<>>
    /\ out = <<>>
    /\ err = FALSE

NextRoute ==
    \/ GetRoute
    \/ Return

SpecRoute == InitRoute /\ [][NextRoute]_vars

(***************************************************************************)
(* What the properties speak of.                                           *)
(***************************************************************************)
AllFlights == get_all_flights(doc).flights

SegmentKeys == <<"flight1", "flight2", "flight3", "flight4">>

SegmentCount(route) == Cardinality(DOMAIN route \ {"Price", "TotalTravelTime"})

\* the destination of the second segment if there is one, else of the first
EffectiveDestination(route) ==
    IF "flight2" \in DOMAIN route
    THEN Get(route["flight2"], "Destination")
    ELSE Get(route["flight1"], "Destination")

InDirection(route, s, d) ==
    /\ Get(route["flight1"], "Source") = s
    /\ EffectiveDestination(route) = d

ExpectedFiltered(s, d) == SelectSeq(AllFlights, LAMBDA route : InDirection(route, s, d))

Filtered(s, d) == get_flights_filtered_direction(doc, s, d)

Occurrences(list, x) == Cardinality({i \in 1..Len(list) : list[i] = x})

Min(a, b) == IF a < b THEN a ELSE b

\* the RouteSummary of a route: two keys for one segment, three otherwise
Summary(route) ==
    IF SegmentCount(route) = 1
    THEN [Source |-> Get(route["flight1"], "Source"),
          Destination |-> Get(route["flight1"], "Destination")]
    ELSE [Source |-> Get(route["flight1"], "Source"),
          Transfer |-> Get(route["flight1"], "Destination"),
          Destination |-> Get(route["flight2"], "Destination")]

Summaries == {Summary(AllFlights[i]) : i \in 1..Len(AllFlights)}

GroupKey(summary) ==
    <<Get(summary, "Source"), Get(summary, "Transfer"), Get(summary, "Destination")>>

RECURSIVE SumCounts(_, _)
SumCounts(list, keys) ==
    IF keys = {} THEN 0
    ELSE LET k == CHOOSE k \in keys : TRUE IN
         Cardinality({i \in 1..Len(list) : GroupKey(list[i]) = k})
            + SumCounts(list, keys \ {k})

\* the entries grouped by (Source, Transfer or none, Destination), the counts summed
SumOfCounts(list) == SumCounts(list, {GroupKey(list[i]) : i \in 1..Len(list)})

\* the place element i of a list takes in a stable sort by keys
StableRank(keys, i, reverse) ==
    1 + Cardinality({j \in 1..Len(keys) :
            \/ (IF reverse THEN keys[j] > keys[i] ELSE keys[j] < keys[i])
            \/ keys[j] = keys[i] /\ j < i})

PriceKeys(flights) == [i \in 1..Len(flights) |-> PriceKey(flights[i])]

TimeKeys(flights) == [i \in 1..Len(flights) |-> TimeKey(flights[i])]

SortedBy(keys) ==
    /\ Len(out) = Len(args.flights)
    /\ \A i \in 1..Len(args.flights) :
          out[StableRank(keys, i, args.reverse)] = args.flights[i]
    /\ \A i, j \in 1..Len(out) :
          i < j => LET ki == keys[CHOOSE x \in 1..Len(keys) :
                                    StableRank(keys, x, args.reverse) = i]
                       kj == keys[CHOOSE x \in 1..Len(keys) :
                                    StableRank(keys, x, args.reverse) = j]
                   IN  IF args.reverse THEN ki >= kj ELSE ki <= kj

Ranks(keys) == [i \in 1..Len(keys) |-> StableRank(keys, i, FALSE)]

\* rank-sum weight of every route of a list: its 0-based places by time and
\* by price, summed
Weights(flights) ==
    LET byTime == Ranks(TimeKeys(flights))
        byPrice == Ranks(PriceKeys(flights))
    IN  [i \in 1..Len(flights) |-> (byTime[i] - 1) + (byPrice[i] - 1)]

\* the place of every route when the routes are put in weight order (w),
\* routes of equal weight in the order of the time-sorted list (byTime)
PlacesBy(w, byTime) ==
    [i \in 1..Len(w) |->
        1 + Cardinality({j \in 1..Len(w) :
                \/ w[j] < w[i]
                \/ w[j] = w[i] /\ byTime[j] < byTime[i]})]

\* the filtered list with its weights and places, each worked out once
Ranking(F) ==
    {[F |-> F, w |-> w, rank |-> PlacesBy(w, byTime)] :
        w \in {Weights(F)}, byTime \in {Ranks(TimeKeys(F))}}

PricingAbsent(node) ==
    \/ ~node.Pricing.present
    \/ \A i \in 1..Len(node.Pricing.ServiceCharges) :
          node.Pricing.ServiceCharges[i].ChargeType # "TotalAmount"

WellShaped(route) ==
    /\ SegmentCount(route) >= 1
    /\ "Price" \in DOMAIN route
    /\ DOMAIN route \ {"Price", "TotalTravelTime"}
          = {SegmentKeys[i] : i \in 1..SegmentCount(route)}

(***************************************************************************)
(* Properties.                                                             *)
(***************************************************************************)
\* C1: for airport codes s and d, get_flights_filtered_direction(s, d) is
\* the list of the routes of get_all_flights() whose first segment's Source
\* is s and whose second segment's Destination (the first's if there is no
\* second segment) is d, each once and in the order of the full list.
C1_FilterIsExact ==
    (/\ op = "get_flights_filtered_direction"
     /\ ~err
     /\ args.source \in Airports
     /\ args.destination \in Airports)
    => out = ExpectedFiltered(args.source, args.destination)

\* C2: get_optimal_route(s, d, N) returns min(N, size of the filtered set)
\* routes, none more often than the filtered set holds it, and the empty
\* list without an error when the filtered set is empty.
C2_OptimalIsBoundedSubset ==
    (op = "get_optimal_route" /\ ~Filtered(args.source, args.destination).raised)
    => LET F == Filtered(args.source, args.destination).flights IN
       /\ F = <<>> => ~err /\ out = <<>>
       /\ ~err =>
            /\ Len(out) <= args.count
            /\ Len(out) = Min(args.count, Len(F))
            /\ \A k \in 1..Len(out) : Occurrences(out, out[k]) <= Occurrences(F, out[k])

C2_Witness ==
    /\ op = "get_optimal_route"
    /\ ~err
    /\ args.count = 2
    /\ Len(Filtered(args.source, args.destination).flights) = 3
    /\ Len(out) = 2

\* C3: for a non-empty filtered set and N >= 1 the median TotalTravelTime and
\* the median TicketPrice of get_optimal_route(s, d, N) are at most those of
\* get_flights_filtered_direction(s, d).
C3_MediansNotWorse ==
    (/\ op = "get_optimal_route"
     /\ ~err
     /\ args.count >= 1
     /\ Filtered(args.source, args.destination).flights # <<>>)
    => LET F == Filtered(args.source, args.destination).flights IN
       /\ get_median_time(out) <= get_median_time(F)
       /\ get_median_price(out) <= get_median_price(F)

C5_DistinctRoutesExact ==
    (op = "get_all_routes" /\ ~err /\ ~args.return_set_airports)
    => /\ {out[i] : i \in 1..Len(out)} = Summaries
       /\ \A i, j \in 1..Len(out) : out[i] = out[j] => i = j

C5_Witness ==
    /\ op = "get_all_routes"
    /\ ~err
    /\ ~args.return_set_airports
    /\ Len(AllFlights) = 3
    /\ Len(out) = 2
    /\ \E i, j \in 1..Len(out) :
          /\ out[i] = [Source |-> A, Destination |-> B]
          /\ out[j] = [Source |-> A, Transfer |-> C, Destination |-> B]

\* C6: get_flights_sorted_price and get_flights_sorted_time return a
\* permutation of their input ordered by the numeric TicketPrice, resp. by
\* TotalTravelTime, ascending or (reverse) descending, routes of equal key in
\* their input order; the input is the list that was passed.
C6_SortsAreStable ==
    /\ (op = "get_flights_sorted_price" /\ ~err)
          => SortedBy(PriceKeys(args.flights)) /\ args.flights = AllFlights
    /\ (op = "get_flights_sorted_time" /\ ~err)
          => SortedBy(TimeKeys(args.flights)) /\ args.flights = AllFlights

C6_Witness ==
    /\ op = "get_flights_sorted_price"
    /\ ~err
    /\ args.reverse
    /\ Len(out) = 3
    /\ out # args.flights
    /\ \E i, j \in 1..3 :
          /\ i < j
          /\ args.flights[i] # args.flights[j]
          /\ PriceKey(args.flights[i]) = PriceKey(args.flights[j])

\* C7: get_route fails for a node whose pricing container or whose
\* TotalAmount charge is absent, and never returns a route without a Price.
C7_MissingPricingFails ==
    op = "get_route"
    => /\ PricingAbsent(doc[args.index]) => err
       /\ ~err => "Price" \in DOMAIN out

\* C8: a route get_route returns, and so every element of get_all_flights(),
\* has at least one segment and one Price, its k segments under the keys
\* flight1..flightk in document order.
C8_RouteShape ==
    /\ (op = "get_route" /\ ~err)
          => /\ WellShaped(out)
             /\ SegmentCount(out) = Len(doc[args.index].Flight)
             /\ \A i \in 1..SegmentCount(out) :
                   out[SegmentKeys[i]] = FlightDirection(doc[args.index].Flight[i])
    /\ (op = "get_all_flights" /\ ~err)
          => \A i \in 1..Len(out) : WellShaped(out[i])

\* C9: get_optimal_route lists the routes of the filtered set by rank-sum
\* weight (0-based place by time plus 0-based place by price), lightest
\* first, routes of equal weight in a stable order, and returns the first
\* count of them: no omitted route is lighter than a returned one.
C9_RankSumOrder ==
    (op = "get_optimal_route" /\ ~err)
    => \A r \in Ranking(Filtered(args.source, args.destination).flights) :
          \A m \in {Min(args.count, Len(r.F))} :
             /\ Len(out) = m
             /\ \A i \in 1..Len(r.F) : r.rank[i] <= m => out[r.rank[i]] = r.F[i]
             /\ \A i, j \in 1..Len(r.F) : r.rank[i] < r.rank[j] => r.w[i] <= r.w[j]
             /\ \A i, j \in 1..Len(r.F) :
                   (r.rank[i] <= m /\ r.rank[j] > m) => r.w[i] <= r.w[j]

C9_Witness ==
    /\ op = "get_optimal_route"
    /\ ~err
    /\ args.count = 2
    /\ \E r \in Ranking(Filtered(args.source, args.destination).flights) :
          /\ Len(r.F) = 3
          /\ \E i, j \in 1..3 : r.w[i] < r.w[j]
          /\ \E i \in 1..3 : r.rank[i] = 3 /\ r.F[i] # out[1] /\ r.F[i] # out[2]
          /\ out[1] # r.F[1]

\* C10: a route R of get_all_flights() is in the list
\* get_flights_filtered_direction returns for the Source and Destination of
\* the entry get_all_routes derives from R.
C10_EndpointsAgree ==
    (op = "get_all_routes" /\ ~err)
    => \A i \in 1..Len(AllFlights) :
          LET R == AllFlights[i]
              S == RouteOf(R)
              found == Filtered(S["Source"], S["Destination"])
          IN  /\ ~found.raised
              /\ \E j \in 1..Len(found.flights) : found.flights[j] = R

====
